---- MODULE Spec2Model ----
(***************************************************************************)
(* A model of the meeting-minutes pipeline: the Flask upload / status      *)
(* handlers and the background worker of api/index.py, the chunked         *)
(* transcription of src/transcriber.py, the Markdown stripping of          *)
(* src/google_docs_client.py and the client configuration of               *)
(* src/minutes_generator.py and src/slack_client.py.                       *)
(*                                                                         *)
(* Text is modelled as a sequence of one-character strings, so that        *)
(* str.replace and str.strip are computed as Python computes them.         *)
(***************************************************************************)
EXTENDS Integers, Sequences, FiniteSets, TLC

VARIABLES
    \* ---- transcriber.py: Transcriber.transcribe_long_audio ----
    la_pc,          \* position inside transcribe_long_audio
    audio_len,      \* len(audio), milliseconds
    chunks,         \* the list `chunks`, each chunk the slice [from, to) of the audio
    chunk_i,        \* the loop index i of the transcription loop (0-based)
    transcript,     \* the local `transcript` accumulated by the loop
    recognized,     \* what the recognizer did for each chunk so far: "raise" or its results
    chunk_files,    \* indices i whose file <audio_path>_chunk_<i>.wav exists
    la_result,      \* the value returned by transcribe_long_audio
    \* ---- google_docs_client.py: GoogleDocsClient.update_document_content ----
    content,        \* the argument `content` (Markdown)
    inserted_text,  \* the text of the insertText request sent to the Docs service
    \* ---- api/index.py: upload_file, get_status, process_audio_file ----
    env,                \* os.environ: which configuration variables are set
    clock,              \* datetime.now(), in microseconds
    files,              \* the upload folder: stored path -> the upload whose bytes it holds
    processing_results, \* the global dict: session id -> the result dict it refers to
    result,             \* the local `result` dict of every worker thread
    pc,                 \* the line every worker thread is at
    session_id,         \* the argument session_id of every worker thread
    file_path,          \* the argument file_path of every worker thread
    exc,                \* the exception a worker has caught: the stage that raised, str(e)
    calls,              \* the collaborator operations every worker has invoked
    clients,            \* the client objects every worker has constructed
    \* ---- the Google Drive of the account, and the Drive locals of every worker ----
    drive_folders,  \* ids of the folders named "minutes_test" that are not trashed
    drive_docs,     \* the document every worker has created: its parent, whether filled
    items,          \* the local `items` of get_or_create_folder: the folders it listed
    folder_id       \* the local `folder_id` of process_audio_file

longVars == <<la_pc, audio_len, chunks, chunk_i, transcript, recognized, chunk_files, la_result>>

docVars == <<content, inserted_text>>

driveVars == <<drive_folders, drive_docs, items, folder_id>>

appVars == <<env, clock, files, processing_results, result, pc, session_id, file_path, exc,
            calls, clients, driveVars>>

vars == <<la_pc, audio_len, chunks, chunk_i, transcript, recognized, chunk_files, la_result,
          content, inserted_text,
          env, clock, files, processing_results, result, pc, session_id, file_path, exc,
          calls, clients, drive_folders, drive_docs, items, folder_id>>

None == "None"

(***************************************************************************)
(* Text helpers                                                            *)
(***************************************************************************)
NL == "\n"

Whitespace == {" ", NL}

RECURSIVE LStrip(_)
LStrip(s) == IF s # <<>> /\ Head(s) \in Whitespace THEN LStrip(Tail(s)) ELSE s

RECURSIVE RStrip(_)
RStrip(s) ==
    IF s # <<>> /\ s[Len(s)] \in Whitespace THEN RStrip(SubSeq(s, 1, Len(s) - 1)) ELSE s

\* str.strip(): whitespace removed at both ends, the inside untouched
Strip(s) == RStrip(LStrip(s))

RECURSIVE Concat(_)
Concat(ss) == IF ss = <<>> THEN <<>> ELSE Head(ss) \o Concat(Tail(ss))

RECURSIVE JoinNL(_)
\* "\n".join(ss)
JoinNL(ss) ==
    IF ss = <<>> THEN <<>>
    ELSE IF Len(ss) = 1 THEN ss[1]
    ELSE ss[1] \o <<NL>> \o JoinNL(Tail(ss))

\* the sequences over S of length at most n
RECURSIVE SeqsUpTo(_, _)
SeqsUpTo(S, n) ==
    IF n = 0 THEN {<<>>}
    ELSE LET shorter == SeqsUpTo(S, n - 1)
         IN  shorter \cup {Append(q, x) : q \in shorter, x \in S}

StartsWith(s, prefix) == Len(s) >= Len(prefix) /\ SubSeq(s, 1, Len(prefix)) = prefix

\* str.endswith(suffix)
EndsWith(s, suffix) ==
    Len(s) >= Len(suffix) /\ SubSeq(s, Len(s) - Len(suffix) + 1, Len(s)) = suffix

Min(a, b) == IF a <= b THEN a ELSE b

(***************************************************************************)
(* transcriber.py: chunking of a long audio                                *)
(***************************************************************************)
chunk_duration_ms == 50000

MaxDuration == 120001

\* audio[a:b]: a slice of an audio of n milliseconds, clamped to its end
AudioSlice(n, a, b) == [from |-> Min(a, n), to |-> Min(b, n)]

RECURSIVE RangeFloor(_, _, _)
RangeFloor(i, stop, step) ==
    IF i + step > stop THEN <<>> ELSE <<i>> \o RangeFloor(i + step, stop, step)

RECURSIVE Range(_, _, _)
\* range(i, stop, step) for step > 0
Range(i, stop, step) ==
    IF i >= stop THEN <<>> ELSE <<i>> \o Range(i + step, stop, step)

\* chunks = [audio[i:i + chunk_duration_ms] for i in range(0, len(audio), chunk_duration_ms)]
ChunkList(n) ==
    LET starts == Range(0, n, chunk_duration_ms)
    IN  [k \in 1..Len(starts) |-> AudioSlice(n, starts[k], starts[k] + chunk_duration_ms)]

Duration(c) == c.to - c.from

NoChunks == <<>>

LongIdle ==
    /\ la_pc = "idle"
    /\ audio_len = 0
    /\ chunks = NoChunks
    /\ chunk_i = 0
    /\ transcript = <<>>
    /\ recognized = <<>>
    /\ chunk_files = {}
    /\ la_result = None

(***************************************************************************)
(* api/index.py: the state of the web application                          *)
(***************************************************************************)
\* the number of uploads accepted in a behaviour, each with its worker thread
MaxRuns == 2

Runs == 1..MaxRuns

\* the last value datetime.now() takes in a behaviour
MaxClock == 1

EnvNames == {"OPENAI_API_KEY", "SLACK_WEBHOOK_URL", "SLACK_BOT_TOKEN", "SLACK_CHANNEL"}

\* TRUE: the variable is set to a non-empty value
Environments == [EnvNames -> BOOLEAN]

\* a worker thread that has not assigned `result` yet
NoResult ==
    [status |-> None, step |-> None, transcript |-> None, minutes |-> None,
     document_url |-> None, document_title |-> None, slack_message |-> None,
     error |-> None, traceback |-> None]

\* no exception raised
NoException == [stage |-> None, message |-> None]

\* the id of the root of the Drive, the parent of a document just created; the ids
\* of the folders the workers create are their run numbers, all different from it
MyDrive == 0

\* a worker that has created no document
NoDocument == [exists |-> FALSE, parent |-> MyDrive, filled |-> FALSE]

AppStart ==
    /\ drive_folders = {}
    /\ drive_docs = [r \in Runs |-> NoDocument]
    /\ items = [r \in Runs |-> {}]
    /\ folder_id = [r \in Runs |-> MyDrive]
    /\ clock = 0
    /\ files = <<>>
    /\ processing_results = <<>>
    /\ result = [r \in Runs |-> NoResult]
    /\ pc = [r \in Runs |-> "unborn"]
    /\ session_id = [r \in Runs |-> -1]
    /\ file_path = [r \in Runs |-> <<>>]
    /\ exc = [r \in Runs |-> NoException]
    /\ calls = [r \in Runs |-> {}]
    /\ clients = [r \in Runs |-> {}]

AppIdle ==
    /\ env = [n \in EnvNames |-> TRUE]
    /\ AppStart

(***************************************************************************)
(* google_docs_client.py: the Markdown stripping of update_document_content *)
(***************************************************************************)
RECURSIVE Replace(_, _, _)
\* str.replace(old, new): the non-overlapping occurrences of old, found left to right
Replace(s, old, new) ==
    IF Len(s) < Len(old) THEN s
    ELSE IF SubSeq(s, 1, Len(old)) = old
         THEN new \o Replace(SubSeq(s, Len(old) + 1, Len(s)), old, new)
         ELSE <<Head(s)>> \o Replace(Tail(s), old, new)

H1 == <<"#", " ">>

H2 == <<"#", "#", " ">>

H3 == <<"#", "#", "#", " ">>

\* line 171: content.replace('# ', '').replace('## ', '').replace('### ', '')
MarkdownToText(c) == Replace(Replace(Replace(c, H1, <<>>), H2, <<>>), H3, <<>>)

DocsIdle ==
    /\ content = <<>>
    /\ inserted_text = None

\* lines 171-185: the stripped text is inserted at index 1 of the document
UpdateDocumentContent ==
    /\ inserted_text = None
    /\ inserted_text' = MarkdownToText(content)
    /\ UNCHANGED <<content, longVars, appVars>>

\* the inputs: documents of 1..MaxLines heading lines of levels 1 to 3
MaxLines == 3

Titles == {<<"T">>, <<"S">>}

Marker(level) == [k \in 1..level |-> "#"] \o <<" ">>

HeadingLines == {Marker(l) \o t : l \in 1..3, t \in Titles}

HeadingDocs == {JoinNL(ls) : ls \in SeqsUpTo(HeadingLines, MaxLines) \ {<<>>}}

InitDocs ==
    /\ LongIdle
    /\ AppIdle
    /\ content \in HeadingDocs
    /\ inserted_text = None

NextDocs == UpdateDocumentContent

SpecDocs == InitDocs /\ [][NextDocs]_vars

\* lines 83-91: decode the audio and cut it into chunks
SplitChunks ==
    /\ la_pc = "start"
    /\ chunks' = ChunkList(audio_len)
    /\ la_pc' = IF chunks' = <<>> THEN "return" ELSE "export"
    /\ UNCHANGED <<audio_len, chunk_i, transcript, recognized, chunk_files, la_result, docVars, appVars>>

\* transcribe_file, lines 63-67: the top alternative of every result, each followed
\* by a newline, the whole stripped
TranscribeFile(results) ==
    Strip(Concat([k \in 1..Len(results) |-> results[k] \o <<NL>>]))

\* the except branch of the chunk loop, lines 101-102: the error is printed, the
\* transcript is left as it was
OnChunkErrorNewline(t) == t \o <<NL>>

OnChunkError(t) == t

\* what the remote recognizer may return for one chunk: up to MaxResults results
MaxResults == 2

Alternatives == {<<"a">>, <<" ", "b">>}

RecognizerResults == SeqsUpTo(Alternatives, MaxResults)

\* lines 94-96: write the chunk to <audio_path>_chunk_<i>.wav
ExportChunk ==
    /\ la_pc = "export"
    /\ chunk_files' = chunk_files \cup {chunk_i}
    /\ la_pc' = "transcribe"
    /\ UNCHANGED <<audio_len, chunks, chunk_i, transcript, recognized, la_result, docVars, appVars>>

\* lines 99-100: transcribe_file returned
TranscribeChunkOk ==
    /\ la_pc = "transcribe"
    /\ \E results \in RecognizerResults :
          /\ transcript' = transcript \o TranscribeFile(results) \o <<NL>>
          /\ recognized' = Append(recognized, [raised |-> FALSE, results |-> results])
    /\ la_pc' = "finally"
    /\ UNCHANGED <<audio_len, chunks, chunk_i, chunk_files, la_result, docVars, appVars>>

\* lines 99, 101-102: transcribe_file raised
TranscribeChunkRaise ==
    /\ la_pc = "transcribe"
    /\ transcript' = OnChunkError(transcript)
    /\ recognized' = Append(recognized, [raised |-> TRUE, results |-> <<>>])
    /\ la_pc' = "finally"
    /\ UNCHANGED <<audio_len, chunks, chunk_i, chunk_files, la_result, docVars, appVars>>

\* a removal placed at the end of the try block: skipped when the attempt raised
RemoveAfterAttemptInTry(fs, i, raised) == IF raised THEN fs ELSE fs \ {i}

\* the finally clause, lines 103-106: the chunk file is removed if it exists,
\* whether transcribe_file returned or raised
RemoveAfterAttempt(fs, i, raised) == fs \ {i}

\* lines 103-106, then the next iteration of the loop of line 94
RemoveChunkFile ==
    /\ la_pc = "finally"
    /\ chunk_files' = RemoveAfterAttempt(chunk_files, chunk_i,
                                         recognized[Len(recognized)].raised)
    /\ chunk_i' = chunk_i + 1
    /\ la_pc' = IF chunk_i + 1 < Len(chunks) THEN "export" ELSE "return"
    /\ UNCHANGED <<audio_len, chunks, transcript, recognized, la_result, docVars, appVars>>

\* line 108
ReturnTranscript ==
    /\ la_pc = "return"
    /\ la_result' = Strip(transcript)
    /\ la_pc' = "done"
    /\ UNCHANGED <<audio_len, chunks, chunk_i, transcript, recognized, chunk_files, docVars, appVars>>

MaxChunks == 3

\* audio lengths that give 0..MaxChunks chunks, with and without a short last chunk
LongAudioLengths ==
    {k * chunk_duration_ms : k \in 0..MaxChunks}
        \cup {k * chunk_duration_ms - 10000 : k \in 1..MaxChunks}

InitLong ==
    /\ DocsIdle
    /\ AppIdle
    /\ audio_len \in LongAudioLengths
    /\ la_pc = "start"
    /\ chunks = NoChunks
    /\ chunk_i = 0
    /\ transcript = <<>>
    /\ recognized = <<>>
    /\ chunk_files = {}
    /\ la_result = None

NextLong ==
    \/ SplitChunks
    \/ ExportChunk
    \/ TranscribeChunkOk
    \/ TranscribeChunkRaise
    \/ RemoveChunkFile
    \/ ReturnTranscript

SpecLong == InitLong /\ [][NextLong]_vars

InitChunk ==
    /\ DocsIdle
    /\ AppIdle
    /\ audio_len \in 0..MaxDuration
    /\ la_pc = "start"
    /\ chunks = NoChunks
    /\ chunk_i = 0
    /\ transcript = <<>>
    /\ recognized = <<>>
    /\ chunk_files = {}
    /\ la_result = None

NextChunk == SplitChunks

SpecChunk == InitChunk /\ [][NextChunk]_vars

(***************************************************************************)
(* api/index.py: upload_file, get_status and the worker process_audio_file *)
(***************************************************************************)
Chars(str) ==
    CASE str = "txt" -> <<"t", "x", "t">>
      [] str = "md" -> <<"m", "d">>
      [] str = "mp4" -> <<"m", "p", "4">>
      [] str = "m4a" -> <<"m", "4", "a">>
      [] str = "wav" -> <<"w", "a", "v">>
      [] str = "mp3" -> <<"m", "p", "3">>
      [] str = "flac" -> <<"f", "l", "a", "c">>
      [] str = "ogg" -> <<"o", "g", "g">>
      [] str = "webm" -> <<"w", "e", "b", "m">>

\* line 40
ALLOWED_EXTENSIONS ==
    {Chars(e) : e \in {"mp4", "m4a", "wav", "mp3", "flac", "ogg", "webm", "txt", "md"}}

\* str.lower(), on the letters the uploads use
LowerChar(c) ==
    CASE c = "T" -> "t"
      [] c = "X" -> "x"
      [] c = "M" -> "m"
      [] c = "D" -> "d"
      [] OTHER -> c

Lower(s) == [k \in 1..Len(s) |-> LowerChar(s[k])]

RECURSIVE AfterLastDot(_)
\* filename.rsplit('.', 1)[1], for a filename that holds a dot
AfterLastDot(s) ==
    IF s[Len(s)] = "." THEN <<>>
    ELSE AfterLastDot(SubSeq(s, 1, Len(s) - 1)) \o <<s[Len(s)]>>

HasDot(s) == \E k \in 1..Len(s) : s[k] = "."

\* lines 38-41
allowed_file(filename) ==
    HasDot(filename) /\ Lower(AfterLastDot(filename)) \in ALLOWED_EXTENSIONS

\* lines 44-46
is_text_file(filename) ==
    EndsWith(filename, <<".", "t", "x", "t">>) \/ EndsWith(filename, <<".", "m", "d">>)

\* the files a client posts: "n.txt", "n.TXT", "n.md", "n.wav", "n.exe", "n" and the
\* empty filename of a form sent with no file selected
PostedFilenames ==
    { <<"n", ".", "t", "x", "t">>, <<"n", ".", "T", "X", "T">>, <<"n", ".", "m", "d">>,
      <<"n", ".", "w", "a", "v">>, <<"n", ".", "e", "x", "e">>, <<"n">>, <<>> }

\* line 141, werkzeug's secure_filename: on these ASCII names it only strips the
\* dots and underscores at both ends
RECURSIVE StripDots(_)
StripDots(s) ==
    IF s # <<>> /\ Head(s) \in {".", "_"} THEN StripDots(Tail(s))
    ELSE IF s # <<>> /\ s[Len(s)] \in {".", "_"} THEN StripDots(SubSeq(s, 1, Len(s) - 1))
    ELSE s

secure_filename(filename) == StripDots(filename)

\* lines 142-144: f"{timestamp}_{filename}" under the upload folder; the timestamp is
\* kept as one element
StoredPath(timestamp, filename) == <<timestamp, "_">> \o secure_filename(filename)

\* os.path.basename(file_path) without the timestamp, which holds no letter or dot
Basename(path) == Tail(path)

FileContent(r) == "content_" \o ToString(r)

Put(f, k, v) == (k :> v) @@ f

\* datetime.now() moves on
Tick ==
    /\ clock < MaxClock
    /\ clock' = clock + 1
    /\ UNCHANGED <<env, files, processing_results, result, pc, session_id, file_path, exc,
                   calls, clients, driveVars, longVars, docVars>>

\* lines 131-153: a request with no file selected or a file whose extension is not
\* allowed is answered 400 and changes nothing; any other file is saved under a
\* timestamped name, its worker thread is started and its session id, the timestamp,
\* is returned
upload_file ==
    \E filename \in PostedFilenames, r \in Runs :
        /\ pc[r] = "unborn" /\ \A q \in 1..(r - 1) : pc[q] # "unborn"
        /\ IF filename # <<>> /\ allowed_file(filename)
           THEN LET timestamp == clock
                    path == StoredPath(timestamp, filename)
                IN  /\ files' = Put(files, path, FileContent(r))
                    /\ file_path' = [file_path EXCEPT ![r] = path]
                    /\ session_id' = [session_id EXCEPT ![r] = timestamp]
                    /\ pc' = [pc EXCEPT ![r] = "l52"]
           ELSE UNCHANGED <<files, file_path, session_id, pc>>
        /\ UNCHANGED <<env, clock, processing_results, result, exc, calls, clients,
                       driveVars, longVars, docVars>>

\* the session ids upload_file has returned so far
ReturnedSessions == {session_id[r] : r \in {q \in Runs : pc[q] # "unborn"}}

\* lines 156-162: the answer to a status poll, a read of the registry
get_status(s) ==
    IF s \notin DOMAIN processing_results
    THEN [code |-> 404, body |-> NoResult]
    ELSE [code |-> 200, body |-> result[processing_results[s]]]

\* ---- the worker thread ----
LocalVarsExcept == <<env, clock, files, session_id, file_path, longVars, docVars>>

WorkerVarsExcept == <<LocalVarsExcept, driveVars>>

SetResult(r, field, value) == [result EXCEPT ![r][field] = value]

Goto(r, label) == [pc EXCEPT ![r] = label]

Called(r, ops) == [calls EXCEPT ![r] = @ \cup ops]

\* where control goes when an exception is raised inside the try block: the only
\* handler is the except clause of line 117
OnExceptionSwallowed(stage) == IF stage = "generating_minutes" THEN "l95" ELSE "l118"

OnException(stage) == "l118"

\* an exception raised while `stage` runs
Raise(r, stage, message) ==
    /\ exc' = [exc EXCEPT ![r] = [stage |-> stage, message |-> message]]
    /\ pc' = Goto(r, OnException(stage))

\* lines 52-62: the result dict is created and put into the registry
RegisterResult(r) ==
    /\ pc[r] = "l52"
    /\ result' = [result EXCEPT ![r] =
                    [NoResult EXCEPT !.status = "processing", !.step = "transcription"]]
    /\ processing_results' = Put(processing_results, session_id[r], r)
    /\ pc' = Goto(r, "l64")
    /\ UNCHANGED <<exc, calls, clients, WorkerVarsExcept>>

\* lines 64-72, a text file: the transcript is the content of the file
ReadTextFile(r) ==
    /\ pc[r] = "l64"
    /\ is_text_file(Basename(file_path[r]))
    /\ calls' = Called(r, {"open"})
    /\ \/ /\ result' = [result EXCEPT ![r].step = "transcription",
                                      ![r].transcript = files[file_path[r]]]
          /\ pc' = Goto(r, "l89")
          /\ UNCHANGED exc
       \/ /\ result' = SetResult(r, "step", "transcription")
          /\ Raise(r, "transcription", "UnicodeDecodeError")
    /\ UNCHANGED <<processing_results, clients, WorkerVarsExcept>>

\* lines 64-65, 74-86, any other file: it is decoded and, by its length, given to
\* transcribe_long_audio or to transcribe_file
TranscribeAudio(r) ==
    /\ pc[r] = "l64"
    /\ ~is_text_file(Basename(file_path[r]))
    /\ \/ /\ calls' = Called(r, {"Transcriber"})
          /\ UNCHANGED clients
          /\ result' = SetResult(r, "step", "transcription")
          /\ Raise(r, "transcription", "DefaultCredentialsError")
       \/ /\ calls' = Called(r, {"Transcriber", "AudioSegment.from_file"})
          /\ clients' = [clients EXCEPT ![r] = @ \cup {"Transcriber"}]
          /\ result' = SetResult(r, "step", "transcription")
          /\ Raise(r, "transcription", "CouldntDecodeError")
       \/ /\ calls' = Called(r, {"Transcriber", "AudioSegment.from_file", "transcribe"})
          /\ clients' = [clients EXCEPT ![r] = @ \cup {"Transcriber"}]
          /\ \/ /\ result' = [result EXCEPT ![r].step = "transcription",
                                            ![r].transcript = "speech"]
                /\ pc' = Goto(r, "l89")
                /\ UNCHANGED exc
             \/ /\ result' = SetResult(r, "step", "transcription")
                /\ Raise(r, "transcription", "recognize failed")
    /\ UNCHANGED <<processing_results, WorkerVarsExcept>>

\* lines 89, 95, 109: the step of the result moves on
SetStep(r) ==
    /\ pc[r] \in {"l89", "l95", "l109"}
    /\ result' = SetResult(r, "step",
                    CASE pc[r] = "l89" -> "generating_minutes"
                      [] pc[r] = "l95" -> "saving_to_docs"
                      [] pc[r] = "l109" -> "sending_slack")
    /\ pc' = Goto(r, CASE pc[r] = "l89" -> "l90" [] pc[r] = "l95" -> "l96"
                       [] pc[r] = "l109" -> "l110")
    /\ UNCHANGED <<processing_results, exc, calls, clients, WorkerVarsExcept>>

\* minutes_generator.py lines 17-21: no API key given and none in the environment
ApiKeyMissing(e) == ~e["OPENAI_API_KEY"]

\* lines 90-92: the minutes are generated from the transcript
GenerateMinutes(r) ==
    /\ pc[r] = "l90"
    /\ IF ApiKeyMissing(env)
       THEN /\ calls' = Called(r, {"MinutesGenerator"})
            /\ UNCHANGED <<clients, result>>
            /\ Raise(r, "generating_minutes", "OpenAI API key is not set")
       ELSE /\ calls' = Called(r, {"MinutesGenerator", "generate_minutes"})
            /\ clients' = [clients EXCEPT ![r] = @ \cup {"MinutesGenerator"}]
            /\ \/ /\ result' = SetResult(r, "minutes", "minutes")
                  /\ pc' = Goto(r, "l95")
                  /\ UNCHANGED exc
               \/ /\ UNCHANGED result
                  /\ Raise(r, "generating_minutes", "chat completion failed")
    /\ UNCHANGED <<processing_results, WorkerVarsExcept>>

\* a get_or_create_folder that creates without looking at what it listed
ShouldCreateFolderAlways(found) == TRUE

\* google_docs_client.py lines 117-121: a folder is created when none was listed
ShouldCreateFolder(found) == found = {}

\* a files().update that leaves the parents as they were
MoveParentsKept(previous_parents, folder) == previous_parents

\* google_docs_client.py lines 149-154: addParents = folder_id, removeParents = all
\* the previous parents
MoveParents(previous_parents, folder) == folder

\* index.py lines 96-101, google_docs_client.py lines 112-119: the client is
\* constructed and get_or_create_folder lists the folders of the name; it returns
\* one of them (items[0], in the order the service lists them) or goes on to create
ListFolders(r) ==
    /\ pc[r] = "l96"
    /\ \/ /\ calls' = Called(r, {"GoogleDocsClient"})
          /\ UNCHANGED <<clients, items, folder_id>>
          /\ Raise(r, "saving_to_docs", "FileNotFoundError")
       \/ /\ clients' = [clients EXCEPT ![r] = @ \cup {"GoogleDocsClient"}]
          /\ calls' = Called(r, {"GoogleDocsClient", "get_or_create_folder"})
          /\ \/ /\ UNCHANGED <<items, folder_id>>
                /\ Raise(r, "saving_to_docs", "HttpError")
             \/ /\ items' = [items EXCEPT ![r] = drive_folders]
                /\ IF ShouldCreateFolder(drive_folders)
                   THEN /\ pc' = Goto(r, "gd122")
                        /\ UNCHANGED folder_id
                   ELSE /\ \E f \in drive_folders :
                              folder_id' = [folder_id EXCEPT ![r] = f]
                        /\ pc' = Goto(r, "gd141")
                /\ UNCHANGED exc
    /\ UNCHANGED <<result, processing_results, drive_folders, drive_docs, LocalVarsExcept>>

\* google_docs_client.py lines 122-127: files().create makes a new folder of the name
CreateFolder(r) ==
    /\ pc[r] = "gd122"
    /\ \/ /\ drive_folders' = drive_folders \cup {r}
          /\ folder_id' = [folder_id EXCEPT ![r] = r]
          /\ pc' = Goto(r, "gd141")
          /\ UNCHANGED exc
       \/ /\ UNCHANGED <<drive_folders, folder_id>>
          /\ Raise(r, "saving_to_docs", "HttpError")
    /\ UNCHANGED <<result, processing_results, calls, clients, drive_docs, items,
                   LocalVarsExcept>>

\* index.py line 102, google_docs_client.py lines 141-143: documents().create makes
\* an empty document in the root of the Drive
CreateDocument(r) ==
    /\ pc[r] = "gd141"
    /\ calls' = Called(r, {"create_document"})
    /\ \/ /\ drive_docs' = [drive_docs EXCEPT ![r] = [NoDocument EXCEPT !.exists = TRUE]]
          /\ pc' = Goto(r, "gd146")
          /\ UNCHANGED exc
       \/ /\ UNCHANGED drive_docs
          /\ Raise(r, "saving_to_docs", "HttpError")
    /\ UNCHANGED <<result, processing_results, clients, drive_folders, items, folder_id,
                   LocalVarsExcept>>

\* google_docs_client.py lines 146-154: files().get reads the parents of the
\* document and files().update moves it into the folder
MoveDocument(r) ==
    /\ pc[r] = "gd146"
    /\ \/ /\ drive_docs' = [drive_docs EXCEPT ![r].parent = MoveParents(@, folder_id[r])]
          /\ pc' = Goto(r, "gd157")
          /\ UNCHANGED exc
       \/ /\ UNCHANGED drive_docs
          /\ Raise(r, "saving_to_docs", "HttpError")
    /\ UNCHANGED <<result, processing_results, calls, clients, drive_folders, items,
                   folder_id, LocalVarsExcept>>

\* google_docs_client.py lines 157, 171-185: batchUpdate inserts the text
FillDocument(r) ==
    /\ pc[r] = "gd157"
    /\ \/ /\ drive_docs' = [drive_docs EXCEPT ![r].filled = TRUE]
          /\ pc' = Goto(r, "l103")
          /\ UNCHANGED exc
       \/ /\ UNCHANGED drive_docs
          /\ Raise(r, "saving_to_docs", "HttpError")
    /\ UNCHANGED <<result, processing_results, calls, clients, drive_folders, items,
                   folder_id, LocalVarsExcept>>

\* index.py lines 103-105: the URL of the document is recorded
SetDocumentUrl(r) ==
    /\ pc[r] = "l103"
    /\ calls' = Called(r, {"get_document_url"})
    /\ result' = SetResult(r, "document_url", "url")
    /\ pc' = Goto(r, "l106")
    /\ UNCHANGED <<exc, processing_results, clients, WorkerVarsExcept>>

\* index.py lines 96-105: the document is created in the folder and its URL is
\* recorded, one remote call at a time
SaveToDocs(r) ==
    \/ ListFolders(r)
    \/ CreateFolder(r)
    \/ CreateDocument(r)
    \/ MoveDocument(r)
    \/ FillDocument(r)
    \/ SetDocumentUrl(r)

\* line 106
SetDocumentTitle(r) ==
    /\ pc[r] = "l106"
    /\ result' = SetResult(r, "document_title", "title")
    /\ pc' = Goto(r, "l109")
    /\ UNCHANGED <<processing_results, exc, calls, clients, WorkerVarsExcept>>

\* slack_client.py lines 37-49: the branch send_message takes
SendMechanismNoClientTest(e) ==
    IF e["SLACK_WEBHOOK_URL"] THEN "webhook"
    ELSE IF e["SLACK_CHANNEL"] THEN "bot"
    ELSE "none"

SendMechanism(e) ==
    IF e["SLACK_WEBHOOK_URL"] THEN "webhook"
    ELSE IF e["SLACK_BOT_TOKEN"] /\ e["SLACK_CHANNEL"] THEN "bot"
    ELSE "none"

\* lines 110-112: the client is built (slack_client.py lines 19-27 raise nothing) and
\* the notification is sent through send_message
SendSlack(r) ==
    /\ pc[r] = "l110"
    /\ clients' = [clients EXCEPT ![r] = @ \cup {"SlackClient"}]
    /\ LET how == SendMechanism(env)
           sent == {"SlackClient", "send_document_notification", "send_message"}
       IN  IF how = "none"
           THEN /\ calls' = Called(r, sent)
                /\ UNCHANGED result
                /\ Raise(r, "sending_slack", "Webhook URL or Bot Token is not set")
           ELSE /\ calls' = Called(r, sent \cup {IF how = "webhook" THEN "requests.post"
                                                                   ELSE "chat_postMessage"})
                /\ \/ /\ result' = SetResult(r, "slack_message", "sent")
                      /\ pc' = Goto(r, "l114")
                      /\ UNCHANGED exc
                   \/ /\ UNCHANGED result
                      /\ Raise(r, "sending_slack",
                               IF how = "webhook" THEN "HTTPError" ELSE "Slack API error")
    /\ UNCHANGED <<processing_results, WorkerVarsExcept>>

\* line 114
SetStatusCompleted(r) ==
    /\ pc[r] = "l114"
    /\ result' = SetResult(r, "status", "completed")
    /\ pc' = Goto(r, "l115")
    /\ UNCHANGED <<processing_results, exc, calls, clients, WorkerVarsExcept>>

\* line 115
SetStepCompleted(r) ==
    /\ pc[r] = "l115"
    /\ result' = SetResult(r, "step", "completed")
    /\ pc' = Goto(r, "done")
    /\ UNCHANGED <<processing_results, exc, calls, clients, WorkerVarsExcept>>

\* line 118
SetStatusError(r) ==
    /\ pc[r] = "l118"
    /\ result' = SetResult(r, "status", "error")
    /\ pc' = Goto(r, "l119")
    /\ UNCHANGED <<processing_results, exc, calls, clients, WorkerVarsExcept>>

\* line 119
SetError(r) ==
    /\ pc[r] = "l119"
    /\ result' = SetResult(r, "error", exc[r].message)
    /\ pc' = Goto(r, "l121")
    /\ UNCHANGED <<processing_results, exc, calls, clients, WorkerVarsExcept>>

\* lines 120-121
SetTraceback(r) ==
    /\ pc[r] = "l121"
    /\ result' = SetResult(r, "traceback", "traceback")
    /\ pc' = Goto(r, "done")
    /\ UNCHANGED <<processing_results, exc, calls, clients, WorkerVarsExcept>>

Worker(r) ==
    \/ RegisterResult(r)
    \/ ReadTextFile(r)
    \/ TranscribeAudio(r)
    \/ SetStep(r)
    \/ GenerateMinutes(r)
    \/ SaveToDocs(r)
    \/ SetDocumentTitle(r)
    \/ SendSlack(r)
    \/ SetStatusCompleted(r)
    \/ SetStepCompleted(r)
    \/ SetStatusError(r)
    \/ SetError(r)
    \/ SetTraceback(r)

Init ==
    /\ LongIdle
    /\ DocsIdle
    /\ env \in Environments
    /\ AppStart

Next ==
    \/ Tick
    \/ upload_file
    \/ \E r \in Runs : Worker(r)

Spec == Init /\ [][Next]_vars

\* every worker thread keeps taking its next step: a stage call returns or raises
FairSpec == Spec /\ \A r \in Runs : WF_vars(Worker(r))

(***************************************************************************)
(* C1, C2, C3: the stages of a run                                         *)
(***************************************************************************)
Stages == <<"transcription", "generating_minutes", "saving_to_docs", "sending_slack",
            "completed">>

StageIndex(step) == IF step = None THEN 0 ELSE CHOOSE k \in 1..Len(Stages) : Stages[k] = step

\* the collaborator operations of every stage
StageOps(stage) ==
    CASE stage = "transcription" ->
            {"open", "Transcriber", "AudioSegment.from_file", "transcribe"}
      [] stage = "generating_minutes" -> {"MinutesGenerator", "generate_minutes"}
      [] stage = "saving_to_docs" ->
            {"GoogleDocsClient", "get_or_create_folder", "create_document",
             "get_document_url"}
      [] stage = "sending_slack" ->
            {"SlackClient", "send_document_notification", "send_message",
             "requests.post", "chat_postMessage"}
      [] stage = "completed" -> {}

\* the fields of the result every stage sets
StageOutputs(stage) ==
    CASE stage = "transcription" -> {"transcript"}
      [] stage = "generating_minutes" -> {"minutes"}
      [] stage = "saving_to_docs" -> {"document_url", "document_title"}
      [] stage = "sending_slack" -> {"slack_message"}
      [] stage = "completed" -> {}

\* the stages before `step` have returned: their outputs are in the result
EarlierStagesReturned(r, step) ==
    \A k \in 1..(StageIndex(step) - 1) :
        \A field \in StageOutputs(Stages[k]) : result[r][field] # None

\* step never skips a stage, never moves backward, and moves on only after the
\* stage before has returned
C1_StepAdvances ==
    \A r \in Runs :
        /\ StageIndex(result'[r].step) \in {StageIndex(result[r].step),
                                            StageIndex(result[r].step) + 1}
        /\ EarlierStagesReturned(r, result[r].step)'

\* C1 without its last clause: the steps of a run are taken in order, each after the
\* stage before it has returned, and status is completed only after the four stages
\* have succeeded
C1_StepsInOrder ==
    /\ [][C1_StepAdvances]_vars
    /\ [](\A r \in Runs : result[r].status = "completed" =>
              EarlierStagesReturned(r, "completed"))

\* C1: the steps of a run are a prefix of transcription, generating_minutes,
\* saving_to_docs, sending_slack, completed, each taken after the stage before it has
\* returned, and status is completed only together with step = completed.
C1_CompletedTogether ==
    /\ [][C1_StepAdvances]_vars
    /\ [](\A r \in Runs : result[r].status = "completed" =>
              /\ EarlierStagesReturned(r, "completed")
              /\ result[r].step = "completed")

LaterStages(stage) == {Stages[k] : k \in (StageIndex(stage) + 1)..Len(Stages)}

\* C2: when a stage of a run raises, no collaborator of a later stage is ever called
\* for the run, the outputs of the failing stage and of the later stages stay unset,
\* and the run ends with status = error and the error recorded.
C2_FailureStopsTheRun ==
    \A r \in Runs :
        exc[r] # NoException =>
            /\ \A later \in LaterStages(exc[r].stage) : calls[r] \cap StageOps(later) = {}
            /\ \A st \in {exc[r].stage} \cup LaterStages(exc[r].stage) :
                  \A field \in StageOutputs(st) : result[r][field] = None
            /\ result[r].status # "completed"
            /\ pc[r] = "done" =>
                  /\ result[r].status = "error"
                  /\ result[r].error = exc[r].message
                  /\ result[r].error # None

\* a run whose generate_minutes raised has ended
C2_Witness ==
    \E r \in Runs :
        /\ pc[r] = "done"
        /\ exc[r] = [stage |-> "generating_minutes", message |-> "chat completion failed"]
        /\ result[r].status = "error"
        /\ result[r].transcript # None
        /\ result[r].document_url = None
        /\ result[r].slack_message = None

Terminal(r) == result[r].status \in {"completed", "error"}

\* C3: every run started by upload_file reaches status completed or error, an
\* exception of a stage ends in the error field of the run, and once status is
\* completed or error the worker changes the record no more.
C3_TerminalIsFinal ==
    /\ \A r \in Runs : (pc[r] # "unborn") ~> Terminal(r)
    /\ [](\A r \in Runs : pc[r] = "done" /\ exc[r] # NoException =>
              result[r].error = exc[r].message)
    /\ [][\A r \in Runs : Terminal(r) => result'[r] = result[r]]_vars

\* the part of C3 that a worker's schedule decides: every started run reaches a
\* terminal status and its thread ends
C3_RunsEnd == \A r \in Runs : (pc[r] # "unborn") ~> (Terminal(r) /\ pc[r] = "done")

(***************************************************************************)
(* C7: text uploads                                                        *)
(***************************************************************************)
\* the upload of run r was accepted by allowed_file for its txt or md extension
AcceptedAsText(r) ==
    /\ pc[r] # "unborn"
    /\ Lower(AfterLastDot(Basename(file_path[r]))) \in {Chars("txt"), Chars("md")}

\* C7: a run whose upload was accepted with a txt or md extension never constructs
\* or calls the transcription collaborator, its transcript is the content of its
\* file, and it shows step = transcription before generating_minutes.
C7_TextNeverTranscribed ==
    \A r \in Runs :
        AcceptedAsText(r) =>
            /\ calls[r] \cap {"Transcriber", "AudioSegment.from_file", "transcribe"} = {}
            /\ "Transcriber" \notin clients[r]
            /\ result[r].transcript \in {None, files[file_path[r]]}
            /\ pc[r] \in {"l64", "l89"} => result[r].step = "transcription"

(***************************************************************************)
(* C8, C9: the registry of runs                                            *)
(***************************************************************************)
\* C8: once upload_file has returned a session id, every status poll for it finds
\* the record of the run, which starts as processing / transcription.
C8_PollFindsRecord ==
    \A r \in Runs :
        pc[r] # "unborn" =>
            /\ get_status(session_id[r]).code = 200
            /\ get_status(session_id[r]).body.status # None

Started == {r \in Runs : pc[r] # "unborn"}

\* the workers that have assigned processing_results[s]
Writers(s) == {r \in Started : session_id[r] = s /\ pc[r] # "l52"}

\* C9: no two runs receive the same session id or the same stored file path, every
\* registry key is written by one worker, and every run that has registered its
\* record is the one its session id leads to.
C9_RunsShareNothing ==
    /\ \A r1, r2 \in Started :
          r1 # r2 => session_id[r1] # session_id[r2] /\ file_path[r1] # file_path[r2]
    /\ \A s \in DOMAIN processing_results : Cardinality(Writers(s)) = 1
    /\ \A r \in Started : pc[r] # "l52" => processing_results[session_id[r]] = r

(***************************************************************************)
(* C10: configuration errors                                               *)
(***************************************************************************)
NoSlackConfigured == ~env["SLACK_WEBHOOK_URL"] /\ ~env["SLACK_BOT_TOKEN"]

SendAttempts == {"requests.post", "chat_postMessage"}

\* C10: without an API key MinutesGenerator is not constructed, and with neither a
\* webhook URL nor a bot token SlackClient is not constructed, so that no send is
\* attempted.
C10_ConstructionFails ==
    \A r \in Runs :
        /\ ~env["OPENAI_API_KEY"] =>
              "MinutesGenerator" \notin clients[r] /\ "generate_minutes" \notin calls[r]
        /\ NoSlackConfigured =>
              "SlackClient" \notin clients[r] /\ calls[r] \cap SendAttempts = {}

\* C10 as the code has it: without an API key MinutesGenerator raises in its
\* constructor and generate_minutes is not attempted; with neither a webhook URL nor
\* a bot token SlackClient is constructed, the error is raised by send_message before
\* any send is attempted, and the run ends in error at sending_slack.
C10_FailsBeforeAnySend ==
    \A r \in Runs :
        /\ ~env["OPENAI_API_KEY"] =>
              /\ "MinutesGenerator" \notin clients[r]
              /\ "generate_minutes" \notin calls[r]
              /\ "MinutesGenerator" \in calls[r] =>
                    exc[r] = [stage |-> "generating_minutes",
                              message |-> "OpenAI API key is not set"]
        /\ NoSlackConfigured =>
              /\ calls[r] \cap SendAttempts = {}
              /\ result[r].slack_message = None
              /\ result[r].status # "completed"
              /\ "SlackClient" \in clients[r] =>
                    /\ "send_message" \in calls[r]
                    /\ exc[r] = [stage |-> "sending_slack",
                                 message |-> "Webhook URL or Bot Token is not set"]
                    /\ pc[r] = "done" =>
                          result[r].status = "error" /\ result[r].step = "sending_slack"

\* a run with no notification mechanism configured has built its SlackClient and
\* ended in error
C10_Witness ==
    /\ NoSlackConfigured
    /\ \E r \in Runs :
          /\ "SlackClient" \in clients[r]
          /\ pc[r] = "done"
          /\ result[r].error = "Webhook URL or Bot Token is not set"
          /\ result[r].document_url # None

(***************************************************************************)
(* C4, C5: chunked transcription                                           *)
(***************************************************************************)
RECURSIVE SuccessfulTexts(_)
SuccessfulTexts(rec) ==
    IF rec = <<>> THEN <<>>
    ELSE IF Head(rec).raised THEN SuccessfulTexts(Tail(rec))
    ELSE <<TranscribeFile(Head(rec).results)>> \o SuccessfulTexts(Tail(rec))

\* C4: transcribe_long_audio takes the chunks one at a time in chunk order, never
\* ends by raising because a chunk's transcription raised, and returns the texts of
\* the successful chunks, in order, joined by one newline and stripped; a failing
\* chunk adds nothing to it.
C4_FailingChunksAddNothing ==
    /\ Len(recognized) \in {chunk_i, chunk_i + 1}
    /\ Len(recognized) <= Len(chunks)
    /\ la_pc = "done" =>
          /\ Len(recognized) = Len(chunks)
          /\ la_result = Strip(JoinNL(SuccessfulTexts(recognized)))

\* a finished call where a failing chunk lies between two chunks that gave text
C4_Witness ==
    /\ la_pc = "done"
    /\ \E i, j, k \in 1..Len(recognized) :
          /\ i < j /\ j < k
          /\ ~recognized[i].raised /\ TranscribeFile(recognized[i].results) # <<>>
          /\ recognized[j].raised
          /\ ~recognized[k].raised /\ TranscribeFile(recognized[k].results) # <<>>

CeilDiv(a, b) == (a + b - 1) \div b

RECURSIVE SumDurations(_)
SumDurations(cs) == IF cs = <<>> THEN 0 ELSE Duration(Head(cs)) + SumDurations(Tail(cs))

\* C5: the chunk list has ceil(D / 50000) chunks, in temporal order, covering [0, D)
\* with no gap and no overlap: the durations sum to D, every chunk is at most 50000 ms
\* long and only the last one may be shorter.
C5_ChunksCoverAudio ==
    la_pc # "start" =>
        /\ Len(chunks) = CeilDiv(audio_len, chunk_duration_ms)
        /\ SumDurations(chunks) = audio_len
        /\ \A k \in 1..Len(chunks) :
              /\ chunks[k].from = (IF k = 1 THEN 0 ELSE chunks[k - 1].to)
              /\ chunks[k].from < chunks[k].to
              /\ Duration(chunks[k]) <= chunk_duration_ms
              /\ k < Len(chunks) => Duration(chunks[k]) = chunk_duration_ms
        /\ chunks # <<>> => chunks[Len(chunks)].to = audio_len

\* an audio cut into three chunks, the last one shorter than the others
C5_Witness ==
    /\ la_pc # "start"
    /\ Len(chunks) = 3
    /\ Duration(chunks[3]) < chunk_duration_ms

(***************************************************************************)
(* C6: Markdown stripping                                                  *)
(***************************************************************************)
RECURSIVE SplitLines(_)
SplitLines(s) ==
    IF \A k \in 1..Len(s) : s[k] # NL THEN <<s>>
    ELSE LET n == CHOOSE k \in 1..Len(s) : s[k] = NL /\ \A m \in 1..(k - 1) : s[m] # NL
         IN  <<SubSeq(s, 1, n - 1)>> \o SplitLines(SubSeq(s, n + 1, Len(s)))

\* a heading line without its marker
HeadingText(line) ==
    IF StartsWith(line, H3) THEN SubSeq(line, 5, Len(line))
    ELSE IF StartsWith(line, H2) THEN SubSeq(line, 4, Len(line))
    ELSE IF StartsWith(line, H1) THEN SubSeq(line, 3, Len(line))
    ELSE line

WithoutMarkers(c) ==
    LET ls == SplitLines(c) IN JoinNL([k \in 1..Len(ls) |-> HeadingText(ls[k])])

\* C6: for content made of heading lines of levels 1 to 3, the text inserted into the
\* document is those lines without their markers '# ', '## ', '### '.
C6_HeadingMarkersRemoved ==
    inserted_text # None => inserted_text = WithoutMarkers(content)

\* the example of C6: "# Title\n## Sub" is written as "Title\nSub"
C6_TitleSubExample ==
    (content = <<"#", " ", "T", NL, "#", "#", " ", "S">> /\ inserted_text # None)
        => inserted_text = <<"T", NL, "S">>

\* C13: in transcribe_long_audio the temporary file of a chunk exists only from
\* its export to the finally clause of its own transcription attempt: at most
\* one chunk file exists at any time and it is the file of the current chunk,
\* no file of chunk i exists when chunk i+1 is about to be written, and no
\* chunk file exists when the function returns, whether attempts returned or
\* raised
C13_ChunkFilesRemoved ==
    /\ Cardinality(chunk_files) <= 1
    /\ chunk_files \subseteq {chunk_i}
    /\ la_pc \in {"transcribe", "finally"} => chunk_files = {chunk_i}
    /\ la_pc \in {"start", "export", "return", "done"} => chunk_files = {}

\* the function has returned after several chunks, one attempt of which raised
\* and one of which returned
C13_Witness ==
    /\ la_pc = "done"
    /\ Len(chunks) >= 2
    /\ Len(recognized) = Len(chunks)
    /\ \E k \in 1..Len(recognized) : recognized[k].raised
    /\ \E k \in 1..Len(recognized) : ~recognized[k].raised
    /\ chunk_files = {}

\* the folder get_or_create_folder has returned to run r, if it has returned
ReturnedFolder(r) == folder_id[r] # MyDrive

\* run r has moved its document out of the root of the Drive
Filed(r) == drive_docs[r].exists /\ drive_docs[r].parent # MyDrive

\* C12: get_or_create_folder lists and then creates in two remote calls: a folder
\* is created only by a run whose listing found none, a run whose listing found
\* folders returns one of those, and any two runs that both listed before either
\* created each create a folder of the name, so that two folders of the name
\* exist and the documents of the two runs are filed under different folder ids
C12_ListThenCreate ==
    /\ \A f \in drive_folders : items[f] = {}
    /\ \A r \in Runs :
          ReturnedFolder(r) =>
              /\ folder_id[r] \in drive_folders
              /\ IF items[r] = {} THEN folder_id[r] = r ELSE folder_id[r] \in items[r]
              /\ drive_docs[r].exists => drive_docs[r].parent \in {MyDrive, folder_id[r]}
    /\ \A r1, r2 \in Runs :
          (r1 # r2 /\ ReturnedFolder(r1) /\ ReturnedFolder(r2)
                /\ items[r1] = {} /\ items[r2] = {}) =>
              /\ Cardinality(drive_folders) >= 2
              /\ folder_id[r1] # folder_id[r2]
              /\ (Filed(r1) /\ Filed(r2)) => drive_docs[r1].parent # drive_docs[r2].parent

\* both runs listed before either created, two folders of the name exist and the
\* two documents are filed under different folder ids
C12_Witness ==
    \E r1, r2 \in Runs :
        /\ r1 # r2
        /\ items[r1] = {} /\ items[r2] = {}
        /\ drive_folders = {r1, r2}
        /\ Filed(r1) /\ Filed(r2)
        /\ drive_docs[r1].parent = r1 /\ drive_docs[r2].parent = r2

\* run r has ended in error: its thread is over and it caught an exception
EndedInError(r) == pc[r] = "done" /\ exc[r].stage # None

\* the document of run r exists in its folder with its text
Complete(r) == Filed(r) /\ drive_docs[r].parent = folder_id[r] /\ drive_docs[r].filled

\* C11 as stated: a run that ends in error leaves no document but a complete one
\* (created, filed and filled) whose notification was not sent, and a run that
\* ends with document_url unset leaves no document at all in the store
C11_NoPartialDocument ==
    \A r \in Runs :
        /\ (EndedInError(r) /\ drive_docs[r].exists) =>
              Complete(r) /\ result[r].slack_message = None
        /\ (pc[r] = "done" /\ result[r].document_url = None) => ~drive_docs[r].exists

\* C11: the remote side effects of a run that raised depend on the stage that
\* raised. Before saving_to_docs: no folder and no document of the run exist. In
\* saving_to_docs: document_url stays unset, and a folder or a document of the
\* run may exist, the document never filled (create_document undoes none of its
\* remote calls). In sending_slack: document_url is set and no message was sent.
\* Whenever document_url is set the document is created, filed and filled.
C11_PartialOnlyFromSaving ==
    \A r \in Runs :
        /\ result[r].document_url # None => Complete(r)
        /\ exc[r].stage \in {"transcription", "generating_minutes"} =>
              /\ ~drive_docs[r].exists
              /\ r \notin drive_folders
              /\ ~ReturnedFolder(r)
        /\ exc[r].stage = "saving_to_docs" =>
              /\ result[r].document_url = None
              /\ ~drive_docs[r].filled
              /\ drive_docs[r].exists => "create_document" \in calls[r]
        /\ exc[r].stage = "sending_slack" =>
              /\ result[r].document_url # None
              /\ result[r].slack_message = None

\* one run ended in error with document_url unset and its document in the store,
\* filed and without text, the other ended in error with its document complete
\* and no message sent
C11_Witness ==
    \E r1, r2 \in Runs :
        /\ EndedInError(r1) /\ EndedInError(r2)
        /\ exc[r1].stage = "saving_to_docs"
        /\ result[r1].document_url = None
        /\ Filed(r1) /\ ~drive_docs[r1].filled
        /\ exc[r2].stage = "sending_slack"
        /\ Complete(r2)

====
